---- MODULE Spec2Model ----
(***************************************************************************)
(* WGL backend of smithay-universal: the library resolver                  *)
(* (src/backend/wgl/ffi.rs), the drawable surface (display.rs) and the     *)
(* rendering context (context.rs).                                         *)
(*                                                                         *)
(* Two specifications share the variables:                                 *)
(*   SpecInit  threads racing through init_gl_library / get_proc_address   *)
(*             one statement at a time, plus uses of the wgl_* wrappers;   *)
(*   Spec      displays, contexts and the per-thread current binding, one  *)
(*             public operation per step.                                  *)
(* The platform (opengl32.dll, gdi32, user32) is the environment: its      *)
(* return values are chosen with \E.                                       *)
(***************************************************************************)
EXTENDS Integers, FiniteSets, Sequences, TLC

\* ------------------------------------------------------------- bounds ----
NumThreads == 2
MaxDisplays == 1
MaxContexts == 2
MaxOwners == 2
NumWindows == 1

Threads == 1..NumThreads
DisplayIds == 1..MaxDisplays
ContextIds == 1..MaxContexts
Hwnds == 1..NumWindows

\* ------------------------------------------------- the platform library --
\* The six entry points WglFunctions is built from (ffi.rs:43-54).
RequiredSymbols ==
    {"wglGetProcAddress", "wglCreateContext", "wglDeleteContext",
     "wglMakeCurrent", "wglGetCurrentContext", "wglGetCurrentDC"}

\* Core GL 1.1 exports of a complete opengl32.dll besides the six.
CoreSymbols == {"glClear"}

\* The library files the process may find: none, a complete one, or one
\* that lacks one of the required entry points.
DllChoices ==
    {[present |-> FALSE, exports |-> {}]}
    \cup {[present |-> TRUE, exports |-> RequiredSymbols \cup CoreSymbols]}
    \cup {[present |-> TRUE, exports |-> (RequiredSymbols \ {s}) \cup CoreSymbols] :
            s \in {"wglGetProcAddress", "wglGetCurrentDC"}}

\* An empty std::sync::OnceLock.
OnceLockNew == [init |-> FALSE, val |-> {}]

\* A std::sync::Mutex<()> that nobody holds; holder 0 is "unlocked".
MutexNew == [holder |-> 0, poisoned |-> FALSE]

\* ----------------------------------------------------------- utilities --
\* Descriptors wrapped in a DeviceFd and the clones one descriptor may have.
NumFds == 3
MaxFdOwners == 3
\* Pixels in the largest buffer handed to swizzle_bgra_rgba.
MaxPixels == 12
Fds == 1..NumFds

\* fd.rs:19  DeviceFd(Arc<OwnedFd>): strong is the Arc's strong count (the
\* DeviceFd values alive), owned tells that an OwnedFd outside any Arc
\* holds the descriptor, closes counts the close calls made on it.
NoFd == [state |-> "none", strong |-> 0, owned |-> FALSE, closes |-> 0]
NoFdOp == [op |-> "none", fd |-> 0, result |-> "none", before |-> 0]

\* simd_utils.rs:17  no buffer has been handed to swizzle_bgra_rgba.
NoSwizzle ==
    [target |-> "none", avx2 |-> FALSE, status |-> "none", orig |-> <<>>,
     data |-> <<>>]

VARIABLES
    dll,            \* the opengl32.dll of this process (environment)
    GL_LIBRARY,     \* OnceLock<Library>: val is the export table of the library
    WGL_FUNCTIONS,  \* OnceLock<WglFunctions>: val is the set of resolved entry points
    INIT_LOCK,      \* Mutex<()>
    pc,             \* per thread: position inside init_gl_library
    call,           \* per thread: the public function the thread is inside
    opens,          \* number of Library::new("opengl32.dll") calls made
    resolves,       \* number of runs of the WglFunctions initialiser
    initOutcomes,   \* outcomes of the init_gl_library calls completed so far
    gpaRet,         \* per thread: outcome of its last get_proc_address call
    wrapRet,        \* per thread: outcome of its last wgl_* wrapper use
    displays,       \* WGLDisplayHandle objects
    contexts,       \* WGLContextHandle objects
    current,        \* per thread: the platform's current (hdc, hglrc)
    lastBind,       \* per thread: context of the last Ok make_current, 0 after an Ok unbind
    lastOp,         \* the operation of the last step of Spec and its result
    swz,            \* a pixel buffer handed to swizzle_bgra_rgba and its build target
    fds,            \* per descriptor: its Arc<OwnedFd> owners, OwnedFd holder, closes
    fdOp            \* the last operation on a DeviceFd and its result

resolverVars == <<dll, GL_LIBRARY, WGL_FUNCTIONS, INIT_LOCK, pc, call, opens,
                  resolves, initOutcomes, gpaRet, wrapRet>>
objectVars == <<displays, contexts, current, lastBind, lastOp>>
utilVars == <<swz, fds, fdOp>>
vars == <<dll, GL_LIBRARY, WGL_FUNCTIONS, INIT_LOCK, pc, call, opens, resolves,
          initOutcomes, gpaRet, wrapRet, displays, contexts, current,
          lastBind, lastOp, swz, fds, fdOp>>

\* A slip: the early return is taken when the cells are not both set.
IsInitializedInverted(lib, fns) == ~(lib.init /\ fns.init)

\* --------------------------------------------------- library resolver ----
\* ffi.rs:31  GL_LIBRARY.get().is_some() && WGL_FUNCTIONS.get().is_some()
IsInitialized(lib, fns) == lib.init /\ fns.init

\* ffi.rs:36  unsafe { Library::new("opengl32.dll") }: the loaded library's
\* export table, or a failure when the file cannot be opened.
LibraryNew(d) ==
    IF d.present THEN [ok |-> TRUE, val |-> d.exports]
                 ELSE [ok |-> FALSE, val |-> {}]

\* A plausible slip: every lookup result is stored, missing ones included,
\* instead of stopping at the first missing entry point.
LoadWglFunctionsPartial(exports) ==
    [ok |-> TRUE, val |-> RequiredSymbols \cap exports]

\* ffi.rs:42-55  the WglFunctions value: each of the six lib.get(..) must
\* succeed (.expect) before the struct exists.
LoadWglFunctions(exports) ==
    IF RequiredSymbols \subseteq exports
        THEN [ok |-> TRUE, val |-> RequiredSymbols]
        ELSE [ok |-> FALSE, val |-> {}]

\* A panic that unwinds through `_guard`: the MutexGuard is dropped while
\* panicking, which unlocks and poisons INIT_LOCK (ffi.rs:29).
PoisonedUnlocked == [holder |-> 0, poisoned |-> TRUE]

NullPtr == 0
PtrNone == [kind |-> "none", ptr |-> NullPtr]
PtrPanic == [kind |-> "panic", ptr |-> NullPtr]
Ptr(p) == [kind |-> "ptr", ptr |-> p]

\* The call of thread t ends by a panic with message kind `why`.
InitPanics(t, why) ==
    /\ initOutcomes' = initOutcomes \cup {why}
    /\ gpaRet' = IF call[t] = "gpa" THEN [gpaRet EXCEPT ![t] = PtrPanic] ELSE gpaRet
    /\ pc' = [pc EXCEPT ![t] = "idle"]
    /\ call' = [call EXCEPT ![t] = "none"]

\* A thread calls init_gl_library (ffi.rs:27).
CallInit(t) ==
    /\ pc[t] = "idle"
    /\ pc' = [pc EXCEPT ![t] = "lock"]
    /\ call' = [call EXCEPT ![t] = "init"]
    /\ UNCHANGED <<utilVars, dll, GL_LIBRARY, WGL_FUNCTIONS, INIT_LOCK, opens, resolves,
                   initOutcomes, gpaRet, wrapRet>>
    /\ UNCHANGED objectVars

\* A thread calls get_proc_address (ffi.rs:67), which starts with
\* init_gl_library() (ffi.rs:69).
CallGetProcAddress(t) ==
    /\ pc[t] = "idle"
    /\ pc' = [pc EXCEPT ![t] = "lock"]
    /\ call' = [call EXCEPT ![t] = "gpa"]
    /\ UNCHANGED <<utilVars, dll, GL_LIBRARY, WGL_FUNCTIONS, INIT_LOCK, opens, resolves,
                   initOutcomes, gpaRet, wrapRet>>
    /\ UNCHANGED objectVars

\* ffi.rs:29  let _guard = INIT_LOCK.lock().unwrap();
\* lock() blocks while another thread holds the mutex; on a poisoned mutex
\* it returns Err and unwrap() panics (the guard inside the error is dropped).
LockInit(t) ==
    /\ pc[t] = "lock"
    /\ INIT_LOCK.holder = 0
    /\ IF INIT_LOCK.poisoned
          THEN /\ InitPanics(t, "panic_poison")
               /\ UNCHANGED INIT_LOCK
          ELSE /\ INIT_LOCK' = [INIT_LOCK EXCEPT !.holder = t]
               /\ pc' = [pc EXCEPT ![t] = "check"]
               /\ UNCHANGED <<call, initOutcomes, gpaRet>>
    /\ UNCHANGED <<utilVars, dll, GL_LIBRARY, WGL_FUNCTIONS, opens, resolves, wrapRet>>
    /\ UNCHANGED objectVars

\* ffi.rs:31-33  the early return when both cells are set.
CheckInit(t) ==
    /\ pc[t] = "check"
    /\ pc' = [pc EXCEPT ![t] =
                 IF IsInitialized(GL_LIBRARY, WGL_FUNCTIONS) THEN "ret" ELSE "open"]
    /\ UNCHANGED <<utilVars, dll, GL_LIBRARY, WGL_FUNCTIONS, INIT_LOCK, call, opens, resolves,
                   initOutcomes, gpaRet, wrapRet>>
    /\ UNCHANGED objectVars

\* ffi.rs:35-38  GL_LIBRARY.get_or_init(|| Library::new(..).expect(..))
OpenLibrary(t) ==
    /\ pc[t] = "open"
    /\ IF GL_LIBRARY.init
          THEN /\ pc' = [pc EXCEPT ![t] = "resolve"]
               /\ UNCHANGED <<GL_LIBRARY, INIT_LOCK, call, opens, initOutcomes, gpaRet>>
          ELSE /\ opens' = opens + 1
               /\ IF LibraryNew(dll).ok
                     THEN /\ GL_LIBRARY' = [init |-> TRUE, val |-> LibraryNew(dll).val]
                          /\ pc' = [pc EXCEPT ![t] = "resolve"]
                          /\ UNCHANGED <<INIT_LOCK, call, initOutcomes, gpaRet>>
                     ELSE /\ InitPanics(t, "panic_load")
                          /\ INIT_LOCK' = PoisonedUnlocked
                          /\ UNCHANGED GL_LIBRARY
    /\ UNCHANGED <<utilVars, dll, WGL_FUNCTIONS, resolves, wrapRet>>
    /\ UNCHANGED objectVars

\* ffi.rs:40-57  WGL_FUNCTIONS.get_or_init(|| WglFunctions { .. })
ResolveFunctions(t) ==
    /\ pc[t] = "resolve"
    /\ IF WGL_FUNCTIONS.init
          THEN /\ pc' = [pc EXCEPT ![t] = "ret"]
               /\ UNCHANGED <<WGL_FUNCTIONS, INIT_LOCK, call, resolves, initOutcomes,
                              gpaRet>>
          ELSE /\ resolves' = resolves + 1
               /\ IF LoadWglFunctions(GL_LIBRARY.val).ok
                     THEN /\ WGL_FUNCTIONS' =
                                [init |-> TRUE, val |-> LoadWglFunctions(GL_LIBRARY.val).val]
                          /\ pc' = [pc EXCEPT ![t] = "ret"]
                          /\ UNCHANGED <<INIT_LOCK, call, initOutcomes, gpaRet>>
                     ELSE /\ InitPanics(t, "panic_symbol")
                          /\ INIT_LOCK' = PoisonedUnlocked
                          /\ UNCHANGED WGL_FUNCTIONS
    /\ UNCHANGED <<utilVars, dll, GL_LIBRARY, opens, wrapRet>>
    /\ UNCHANGED objectVars

\* ffi.rs:32 / ffi.rs:59  return Ok(()): `_guard` goes out of scope.
ReturnInit(t) ==
    /\ pc[t] = "ret"
    /\ INIT_LOCK' = [INIT_LOCK EXCEPT !.holder = 0]
    /\ initOutcomes' = initOutcomes \cup {"Ok"}
    /\ pc' = [pc EXCEPT ![t] = IF call[t] = "gpa" THEN "gpa" ELSE "idle"]
    /\ call' = [call EXCEPT ![t] = IF call[t] = "gpa" THEN "gpa" ELSE "none"]
    /\ UNCHANGED <<utilVars, dll, GL_LIBRARY, WGL_FUNCTIONS, opens, resolves, gpaRet, wrapRet>>
    /\ UNCHANGED objectVars

\* ffi.rs:67  name: &str of an operation that takes no name.
NoName == [text |-> "", nul |-> FALSE]

\* ------------------------------------------------------ function loader --
\* Names a caller may ask for.  nul marks a name with an interior NUL byte.
GpaNames ==
    {[text |-> "glClear", nul |-> FALSE],
     [text |-> "glGenBuffers", nul |-> FALSE],
     [text |-> "nonexistent_symbol_xyz", nul |-> FALSE],
     [text |-> "glClear", nul |-> TRUE]}

\* Address of an exported symbol inside the loaded library image.
SymbolOrder ==
    <<"wglGetProcAddress", "wglCreateContext", "wglDeleteContext", "wglMakeCurrent",
      "wglGetCurrentContext", "wglGetCurrentDC", "glClear">>
SymbolAddress(sym) ==
    1000 + (CHOOSE i \in 1..Len(SymbolOrder) : SymbolOrder[i] = sym)

\* What the driver's wglGetProcAddress may answer: null, the small invalid
\* values some drivers use, or the address of an extension function.
ExtensionAddress == 2000
ExtResults == {NullPtr, 1, 2, 3, -1, ExtensionAddress}

\* ffi.rs:73-76  CString::new(name) fails on an interior NUL.
CStringNew(name) == [ok |-> ~name.nul, text |-> name.text]

\* A slip: only the null answer of wglGetProcAddress is rejected.
IsUsablePointerNullOnly(p) == p # NullPtr

\* ffi.rs:83-86  the extension answer is usable.
IsUsablePointer(p) == p # NullPtr /\ p # 1 /\ p # 2 /\ p # 3 /\ p # -1

\* ffi.rs:91-94  lib.get(name).map(|sym| *sym).unwrap_or(null)
LibraryGet(lib, text) ==
    IF text \in lib.val THEN SymbolAddress(text) ELSE NullPtr

\* ffi.rs:73-95  get_proc_address after a successful init_gl_library;
\* ext is the driver's answer to the extension query.
GetProcAddressBody(lib, name, ext) ==
    IF ~CStringNew(name).ok THEN NullPtr
    ELSE IF IsUsablePointer(ext) THEN ext
    ELSE LibraryGet(lib, CStringNew(name).text)

\* The rest of get_proc_address, once init_gl_library has returned Ok.
\* WGL_FUNCTIONS.get().unwrap() and GL_LIBRARY.get().unwrap() (ffi.rs:80,91)
\* panic on an empty cell.
GpaBody(t) ==
    /\ pc[t] = "gpa"
    /\ \E name \in GpaNames, ext \in ExtResults :
          gpaRet' = [gpaRet EXCEPT ![t] =
                        IF IsInitialized(GL_LIBRARY, WGL_FUNCTIONS)
                            THEN Ptr(GetProcAddressBody(GL_LIBRARY, name, ext))
                            ELSE PtrPanic]
    /\ pc' = [pc EXCEPT ![t] = "idle"]
    /\ call' = [call EXCEPT ![t] = "none"]
    /\ UNCHANGED <<utilVars, dll, GL_LIBRARY, WGL_FUNCTIONS, INIT_LOCK, opens, resolves,
                   initOutcomes, wrapRet>>
    /\ UNCHANGED objectVars

\* ffi.rs:98-126  every wgl_* wrapper starts with
\* WGL_FUNCTIONS.get().expect("WGL not initialized"); no lock is taken.
WglFunctionsGet(fns) ==
    IF fns.init THEN [kind |-> "called", fns |-> fns.val]
                ELSE [kind |-> "panic_uninit", fns |-> {}]

\* A thread outside init_gl_library uses one of the wgl_* wrappers.
UseWrapper(t) ==
    /\ pc[t] = "idle"
    /\ wrapRet' = [wrapRet EXCEPT ![t] = WglFunctionsGet(WGL_FUNCTIONS)]
    /\ UNCHANGED <<utilVars, dll, GL_LIBRARY, WGL_FUNCTIONS, INIT_LOCK, pc, call, opens,
                   resolves, initOutcomes, gpaRet>>
    /\ UNCHANGED objectVars

\* ------------------------------------------------------- initial state ---
\* acquired / released: the GetDC successes and ReleaseDC calls of the step;
\* wasCurrent / wasLast: a context drop found the context current on the
\* dropping thread / was the drop of the last owner; atDelete: the threads
\* on which the handle was current when wglDeleteContext was called;
\* arg: the handle the caller passed (hwnd, hdc, or the display of new);
\* answers: the platform's answers the operation consumed, in call order;
\* liveAtRelease: the contexts on the surface that were not yet deleted
\* when ReleaseDC was called; name: the name given to get_proc_address.
NoOp == [op |-> "none", thread |-> 0, id |-> 0, result |-> "none",
         acquired |-> 0, released |-> 0,
         wasCurrent |-> FALSE, wasLast |-> FALSE, atDelete |-> {},
         arg |-> 0, answers |-> <<>>, liveAtRelease |-> {},
     name |-> NoName]

ResolverInit ==
    /\ dll \in DllChoices
    /\ GL_LIBRARY = OnceLockNew
    /\ WGL_FUNCTIONS = OnceLockNew
    /\ INIT_LOCK = MutexNew
    /\ pc = [t \in Threads |-> "idle"]
    /\ call = [t \in Threads |-> "none"]
    /\ opens = 0
    /\ resolves = 0
    /\ initOutcomes = {}
    /\ gpaRet = [t \in Threads |-> PtrNone]
    /\ wrapRet = [t \in Threads |-> [kind |-> "none", fns |-> {}]]

FreeDisplay == [state |-> "free", hdc |-> 0, hwnd |-> {}, owned |-> FALSE,
                strong |-> 0, held |-> 0, releases |-> 0]
FreeContext == [state |-> "free", hglrc |-> 0, display |-> 0, strong |-> 0,
                deletes |-> 0]
NoBinding == [hdc |-> 0, hglrc |-> 0]

ObjectInit ==
    /\ displays = [d \in DisplayIds |-> FreeDisplay]
    /\ contexts = [c \in ContextIds |-> FreeContext]
    /\ current = [t \in Threads |-> NoBinding]
    /\ lastBind = [t \in Threads |-> 0]
    /\ lastOp = NoOp

\* No pixel buffer is being converted and no descriptor is wrapped.
UtilInit ==
    /\ swz = NoSwizzle
    /\ fds = [f \in Fds |-> NoFd]
    /\ fdOp = NoFdOp

Init == ResolverInit /\ ObjectInit /\ UtilInit

\* The library resolver under concurrent callers.
NextInit ==
    \E t \in Threads :
        \/ CallInit(t)
        \/ CallGetProcAddress(t)
        \/ LockInit(t)
        \/ CheckInit(t)
        \/ OpenLibrary(t)
        \/ ResolveFunctions(t)
        \/ ReturnInit(t)
        \/ GpaBody(t)
        \/ UseWrapper(t)

SpecInit == Init /\ [][NextInit]_vars

\* The steps of thread t inside a call that do not wait for INIT_LOCK.
RunsOn(t) ==
    CheckInit(t) \/ OpenLibrary(t) \/ ResolveFunctions(t) \/ ReturnInit(t)
        \/ GpaBody(t)

\* The resolver under a fair scheduler: a thread inside a call keeps being
\* run, and a thread waiting in INIT_LOCK.lock() (ffi.rs:29) gets the mutex
\* if it is free again and again.  Whether a thread makes a call at all is
\* left to the thread.
SpecInitFair ==
    /\ Init
    /\ [][NextInit]_vars
    /\ \A t \in Threads : WF_vars(RunsOn(t)) /\ SF_vars(LockInit(t))

\* ------------------------------------- init_gl_library as one step -------
\* INIT_LOCK serialises the callers, so for threads that are not inside
\* the function a whole call is one step (ffi.rs:27-60).  The result holds
\* the cells after the call and how the call ended.
InitGlLibrary(lib, fns, lock, d) ==
    IF lock.poisoned
        THEN [lib |-> lib, fns |-> fns, lock |-> lock, out |-> "panic_poison",
              opened |-> 0, resolved |-> 0]
    ELSE IF IsInitialized(lib, fns)
        THEN [lib |-> lib, fns |-> fns, lock |-> lock, out |-> "Ok",
              opened |-> 0, resolved |-> 0]
    ELSE IF ~lib.init /\ ~LibraryNew(d).ok
        THEN [lib |-> lib, fns |-> fns, lock |-> PoisonedUnlocked, out |-> "panic_load",
              opened |-> 1, resolved |-> 0]
    ELSE LET lib1 == IF lib.init THEN lib ELSE [init |-> TRUE, val |-> LibraryNew(d).val]
             nOpen == IF lib.init THEN 0 ELSE 1
             fr == LoadWglFunctions(lib1.val)
         IN IF fns.init
                THEN [lib |-> lib1, fns |-> fns, lock |-> lock, out |-> "Ok",
                      opened |-> nOpen, resolved |-> 0]
            ELSE IF fr.ok
                THEN [lib |-> lib1, fns |-> [init |-> TRUE, val |-> fr.val],
                      lock |-> lock, out |-> "Ok", opened |-> nOpen, resolved |-> 1]
            ELSE [lib |-> lib1, fns |-> fns, lock |-> PoisonedUnlocked,
                  out |-> "panic_symbol", opened |-> nOpen, resolved |-> 1]

InitNow == InitGlLibrary(GL_LIBRARY, WGL_FUNCTIONS, INIT_LOCK, dll)

\* The effect of the call on the statics and on the counts of native work.
ApplyInitCells(r) ==
    /\ GL_LIBRARY' = r.lib
    /\ WGL_FUNCTIONS' = r.fns
    /\ INIT_LOCK' = r.lock
    /\ opens' = opens + r.opened
    /\ resolves' = resolves + r.resolved
    /\ initOutcomes' = initOutcomes \cup {r.out}

\* The effect of the call on the resolver's state.
ApplyInit(r) ==
    /\ ApplyInitCells(r)
    /\ UNCHANGED <<utilVars, dll, pc, call, gpaRet, wrapRet>>

\* ffi.rs:67-96  get_proc_address as one step of thread t: the call of
\* init_gl_library (69-71), then the body.  wglGetProcAddress is asked only
\* when CString::new accepted the name; its answer ext is then recorded.
GetProcAddress(t, name, ext) ==
    LET r == InitNow
    IN /\ ApplyInitCells(r)
       /\ gpaRet' = [gpaRet EXCEPT ![t] =
             IF r.out = "Ok" THEN Ptr(GetProcAddressBody(r.lib, name, ext))
                             ELSE PtrPanic]
       /\ UNCHANGED <<utilVars, dll, pc, call, wrapRet>>
       /\ lastOp' = [NoOp EXCEPT
             !.op = "get_proc_address", !.thread = t, !.name = name,
             !.answers = IF r.out = "Ok" /\ CStringNew(name).ok
                            THEN <<ext>> ELSE <<>>,
             !.result = IF r.out = "Ok"
                            THEN GetProcAddressBody(r.lib, name, ext)
                            ELSE r.out]
       /\ UNCHANGED <<displays, contexts, current, lastBind>>

\* ffi.rs:67  the names and extension answers the loader is called with.
NextGpa ==
    \E t \in Threads, name \in GpaNames, ext \in ExtResults :
        GetProcAddress(t, name, ext)

SpecGpa == Init /\ [][NextGpa]_vars

\* ------------------------------------------------------ the platform -----
\* user32 GetDC(hwnd): the window's device context; 0 is failure.
WindowDC(hwnd) == 10 + hwnd
\* Device contexts a caller of from_raw may hold; 0 is the null handle.
RawDC == 21
RawHdcs == {0, RawDC}
\* gdi32 ChoosePixelFormat: a format index, 0 when none matches.
NumPixelFormats == 2
\* opengl32 wglCreateContext: a handle never handed out before.
PlatformNewHglrc(ctxs) ==
    100 + Cardinality({c \in ContextIds : ctxs[c].state # "free"}) + 1
\* opengl32 wglMakeCurrent(hdc, hglrc): a nonzero return installs the pair as
\* the calling thread's binding (null handles clear it); a zero return
\* leaves the binding as it was.
PlatformMakeCurrent(cur, hdc, hglrc, ret) ==
    IF ret # 0 THEN [hdc |-> hdc, hglrc |-> hglrc] ELSE cur
\* opengl32 wglDeleteContext(hglrc) when hglrc is the caller's current
\* context: what the driver does with the binding is not defined; it is
\* kept (dangling) or cleared.
PlatformDeleteContext(cur, hglrc, keep) ==
    IF cur.hglrc = hglrc /\ ~keep THEN NoBinding ELSE cur

\* The contexts built on display d whose native handle is not deleted.
ContextsOn(ctxs, d) ==
    {c \in ContextIds : ctxs[c].state = "live" /\ ctxs[c].display = d}

\* ------------------------------------------------------ WGLDisplay -------
FreeDisplaySlots == {d \in DisplayIds : displays[d].state = "free"}
FirstFreeDisplay == CHOOSE d \in FreeDisplaySlots : \A e \in FreeDisplaySlots : d <= e

DisplayOp(name, d, result, acquired, released) ==
    [op |-> name, thread |-> 0, id |-> d, result |-> result,
     acquired |-> acquired, released |-> released,
     wasCurrent |-> FALSE, wasLast |-> FALSE, atDelete |-> {},
     arg |-> 0, answers |-> <<>>, liveAtRelease |-> {},
     name |-> NoName]

\* A slip: the DC is released whether or not it is owned.
ReleasesOnDropAlways(dsp) == 1

\* display.rs:21-31  WGLDisplayHandle::drop: the number of ReleaseDC calls.
ReleasesOnDrop(dsp) ==
    IF dsp.owned /\ dsp.hwnd # {} THEN 1 ELSE 0

\* Dropping one Arc<WGLDisplayHandle>: the strong count goes down and the
\* handle is dropped when it reaches zero (display.rs:35-37).
ArcDropDisplay(dsp) ==
    IF dsp.strong > 1
        THEN [dsp EXCEPT !.strong = @ - 1]
        ELSE [dsp EXCEPT !.strong = 0, !.state = "dropped",
                         !.releases = @ + ReleasesOnDrop(dsp)]

\* display.rs:53-63  the PIXELFORMATDESCRIPTOR from_window asks for.
RequestedFormat ==
    [color |-> 32, depth |-> 24, stencil |-> 8, doubleBuffer |-> TRUE,
     drawToWindow |-> TRUE, supportOpenGL |-> TRUE]

\* display.rs:65  the device's pixel format behind a nonzero index returned
\* by ChoosePixelFormat, which answers with the closest format the device
\* has: index 1 is the requested format, a higher index a lesser one.
DeviceFormat(pf) ==
    IF pf = 1 THEN RequestedFormat
    ELSE [RequestedFormat EXCEPT !.depth = 16, !.stencil = 0]

\* A format offers at least what the descriptor asks for.
Satisfies(fmt, req) ==
    /\ fmt.color >= req.color
    /\ fmt.depth >= req.depth
    /\ fmt.stencil >= req.stencil
    /\ req.doubleBuffer => fmt.doubleBuffer
    /\ req.drawToWindow => fmt.drawToWindow
    /\ req.supportOpenGL => fmt.supportOpenGL

\* A slip: a rejected SetPixelFormat is reported as the selection failure.
FromWindowOutcomeMerged(hdc, pf, setOk) ==
    IF hdc = 0 THEN "GetDCFailed"
    ELSE IF pf = 0 \/ setOk = 0 THEN "ChoosePixelFormatFailed"
    ELSE "Ok"

\* display.rs:47-76  the result of from_window from the answers of GetDC,
\* ChoosePixelFormat and SetPixelFormat, tested in that order.
FromWindowOutcome(hdc, pf, setOk) ==
    IF hdc = 0 THEN "GetDCFailed"
    ELSE IF pf = 0 THEN "ChoosePixelFormatFailed"
    ELSE IF setOk = 0 THEN "SetPixelFormatFailed"
    ELSE "Ok"

\* A slip: the DC is given back only when no format was found.
FromWindowReleasesOnChooseOnly(hdc, pf, setOk) ==
    IF hdc # 0 /\ pf = 0 THEN 1 ELSE 0

\* display.rs:66-74  the ReleaseDC calls from_window itself makes: one on
\* each of the two early returns that follow a successful GetDC.
FromWindowReleases(hdc, pf, setOk) ==
    IF hdc # 0 /\ (pf = 0 \/ setOk = 0) THEN 1 ELSE 0

\* display.rs:47-74  the native calls from_window got to make: each early
\* return skips the calls after it.
FromWindowAnswers(hdc, pf, setOk) ==
    IF hdc = 0 THEN <<hdc>>
    ELSE IF pf = 0 THEN <<hdc, pf>>
    ELSE <<hdc, pf, setOk>>

\* display.rs:44-83  WGLDisplay::from_window(hwnd).  hdc, pf and setOk are
\* the answers of GetDC, ChoosePixelFormat and SetPixelFormat.
FromWindow(hwnd) ==
    /\ FreeDisplaySlots # {}
    /\ ApplyInit(InitNow)
    /\ IF InitNow.out # "Ok"
          THEN /\ lastOp' = [DisplayOp("from_window", 0, InitNow.out, 0, 0)
                                EXCEPT !.arg = hwnd]
               /\ UNCHANGED displays
          ELSE \E hdc \in {0, WindowDC(hwnd)}, pf \in 0..NumPixelFormats, setOk \in {0, 1} :
                 LET out == FromWindowOutcome(hdc, pf, setOk)
                     got == IF hdc = 0 THEN 0 ELSE 1
                 IN IF out # "Ok"
                       THEN /\ lastOp' = [DisplayOp("from_window", 0, out, got,
                                                     FromWindowReleases(hdc, pf, setOk))
                                   EXCEPT !.arg = hwnd,
                                          !.answers = FromWindowAnswers(hdc, pf, setOk)]
                            /\ UNCHANGED displays
                       ELSE /\ displays' = [displays EXCEPT ![FirstFreeDisplay] =
                                  [state |-> "live", hdc |-> hdc, hwnd |-> {hwnd},
                                   owned |-> TRUE, strong |-> 1, held |-> 1,
                                   releases |-> 0]]
                            /\ lastOp' = [DisplayOp("from_window", FirstFreeDisplay, out,
                                                     1, 0)
                                   EXCEPT !.arg = hwnd,
                                          !.answers = FromWindowAnswers(hdc, pf, setOk)]
    /\ UNCHANGED <<contexts, current, lastBind>>

\* A slip: the null test of from_raw is missing.
FromRawOutcomeUnchecked(hdc) == "Ok"

\* display.rs:92-94  if hdc == 0 { return Err(Error::GetDCFailed) }
FromRawOutcome(hdc) == IF hdc = 0 THEN "GetDCFailed" ELSE "Ok"

\* display.rs:89-103  WGLDisplay::from_raw(hdc)
FromRaw(hdc) ==
    /\ FreeDisplaySlots # {}
    /\ ApplyInit(InitNow)
    /\ IF InitNow.out # "Ok"
          THEN /\ lastOp' = [DisplayOp("from_raw", 0, InitNow.out, 0, 0)
                                EXCEPT !.arg = hdc]
               /\ UNCHANGED displays
       ELSE IF FromRawOutcome(hdc) # "Ok"
          THEN /\ lastOp' = [DisplayOp("from_raw", 0, FromRawOutcome(hdc), 0, 0)
                                EXCEPT !.arg = hdc]
               /\ UNCHANGED displays
       ELSE /\ displays' = [displays EXCEPT ![FirstFreeDisplay] =
                  [state |-> "live", hdc |-> hdc, hwnd |-> {}, owned |-> FALSE,
                   strong |-> 1, held |-> 1, releases |-> 0]]
            /\ lastOp' = [DisplayOp("from_raw", FirstFreeDisplay, "Ok", 0, 0)
                             EXCEPT !.arg = hdc]
    /\ UNCHANGED <<contexts, current, lastBind>>

\* display.rs:34  #[derive(Clone)] on WGLDisplay: one more Arc owner.  The
\* source value is one the user holds or the one a context lends through
\* display() (context.rs:83).
CloneDisplay(d) ==
    /\ displays[d].state = "live"
    /\ displays[d].held < MaxOwners
    /\ displays' = [displays EXCEPT ![d].strong = @ + 1, ![d].held = @ + 1]
    /\ lastOp' = DisplayOp("clone_display", d, "Ok", 0, 0)
    /\ UNCHANGED <<contexts, current, lastBind>>
    /\ UNCHANGED <<resolverVars, utilVars>>

\* A WGLDisplay value the user holds goes out of scope.
DropDisplay(d) ==
    /\ displays[d].state = "live"
    /\ displays[d].held > 0
    /\ displays' = [displays EXCEPT ![d] = ArcDropDisplay([@ EXCEPT !.held = @ - 1])]
    /\ lastOp' = [DisplayOp("drop_display", d, "Ok", 0,
                             displays'[d].releases - displays[d].releases)
                     EXCEPT !.liveAtRelease =
                        IF displays'[d].releases > displays[d].releases
                            THEN ContextsOn(contexts, d) ELSE {}]
    /\ UNCHANGED <<contexts, current, lastBind>>
    /\ UNCHANGED <<resolverVars, utilVars>>

\* ------------------------------------------------------ WGLContext -------
FreeContextSlots == {c \in ContextIds : contexts[c].state = "free"}
FirstFreeContext == CHOOSE c \in FreeContextSlots : \A e \in FreeContextSlots : c <= e

ContextOp(name, t, c, result) ==
    [op |-> name, thread |-> t, id |-> c, result |-> result,
     acquired |-> 0, released |-> 0,
     wasCurrent |-> FALSE, wasLast |-> FALSE, atDelete |-> {},
     arg |-> 0, answers |-> <<>>, liveAtRelease |-> {},
     name |-> NoName]

\* A slip: the BOOL is tested the wrong way round.
WglMakeCurrentInverted(ret) == ret = 0

\* ffi.rs:111-114  wgl_make_current: (fn)(hdc, hglrc) != 0
WglMakeCurrent(ret) == ret # 0

\* A slip: the context handle is left out of the call.
MakeCurrentArgsNoContext(ctx, dsp) == [hdc |-> dsp.hdc, hglrc |-> 0]

\* context.rs:57  the arguments make_current passes to wgl_make_current.
MakeCurrentArgs(ctx, dsp) == [hdc |-> dsp.hdc, hglrc |-> ctx.hglrc]

\* A slip: the context keeps the raw hdc only, not a clone of the display.
ContextBorrowsDisplay(dsp) == dsp

\* context.rs:49  display: display.clone(): the new context handle is one
\* more owner of the Arc<WGLDisplayHandle>.
ContextHoldsDisplay(dsp) == [dsp EXCEPT !.strong = @ + 1]

\* context.rs:68-70  WGLContext::is_current on thread t.
IsCurrent(t, c) == current[t].hglrc = contexts[c].hglrc

\* A slip: the zero test of WGLContext::new is missing.
NewContextOutcomeUnchecked(h) == "Ok"

\* context.rs:43-45  if hglrc == 0 { return Err(Error::ContextCreationFailed) }
NewContextOutcome(h) == IF h = 0 THEN "ContextCreationFailed" ELSE "Ok"

\* context.rs:40-52  WGLContext::new(&display) on thread t; h is the answer
\* of wglCreateContext.
NewContext(t, d) ==
    /\ displays[d].state = "live"
    /\ FreeContextSlots # {}
    /\ \E h \in {0, PlatformNewHglrc(contexts)} :
          IF WglFunctionsGet(WGL_FUNCTIONS).kind # "called"
             THEN /\ lastOp' = [ContextOp("new_context", t, 0, "panic_uninit")
                                   EXCEPT !.arg = d]
                  /\ UNCHANGED <<displays, contexts>>
          ELSE IF NewContextOutcome(h) # "Ok"
             THEN /\ lastOp' = [ContextOp("new_context", t, 0, NewContextOutcome(h))
                                   EXCEPT !.arg = d, !.answers = <<h>>]
                  /\ UNCHANGED <<displays, contexts>>
          ELSE /\ contexts' = [contexts EXCEPT ![FirstFreeContext] =
                     [state |-> "live", hglrc |-> h, display |-> d, strong |-> 1,
                      deletes |-> 0]]
               /\ displays' = [displays EXCEPT ![d] = ContextHoldsDisplay(@)]
               /\ lastOp' = [ContextOp("new_context", t, FirstFreeContext, "Ok")
                                EXCEPT !.arg = d, !.answers = <<h>>]
    /\ UNCHANGED <<current, lastBind>>
    /\ UNCHANGED <<resolverVars, utilVars>>

\* context.rs:33  #[derive(Clone)] on WGLContext.
CloneContext(c) ==
    /\ contexts[c].state = "live"
    /\ contexts[c].strong < MaxOwners
    /\ contexts' = [contexts EXCEPT ![c].strong = @ + 1]
    /\ lastOp' = ContextOp("clone_context", 0, c, "Ok")
    /\ UNCHANGED <<displays, current, lastBind>>
    /\ UNCHANGED <<resolverVars, utilVars>>

\* context.rs:55-65  make_current on thread t; ret is wglMakeCurrent's BOOL.
MakeCurrent(t, c) ==
    /\ contexts[c].state = "live"
    /\ \E ret \in {0, 1} :
          IF WglFunctionsGet(WGL_FUNCTIONS).kind # "called"
             THEN /\ lastOp' = ContextOp("make_current", t, c, "panic_uninit")
                  /\ UNCHANGED <<current, lastBind>>
             ELSE LET a == MakeCurrentArgs(contexts[c], displays[contexts[c].display])
                      ok == WglMakeCurrent(ret)
                  IN /\ current' = [current EXCEPT ![t] =
                                       PlatformMakeCurrent(@, a.hdc, a.hglrc, ret)]
                     /\ lastBind' = IF ok THEN [lastBind EXCEPT ![t] = c] ELSE lastBind
                     /\ lastOp' = ContextOp("make_current", t, c,
                                            IF ok THEN "Ok" ELSE "MakeCurrentError")
    /\ UNCHANGED <<displays, contexts>>
    /\ UNCHANGED <<resolverVars, utilVars>>

\* context.rs:73-80  WGLContext::unbind() on thread t: no instance needed.
Unbind(t) ==
    /\ \E ret \in {0, 1} :
          IF WglFunctionsGet(WGL_FUNCTIONS).kind # "called"
             THEN /\ lastOp' = ContextOp("unbind", t, 0, "panic_uninit")
                  /\ UNCHANGED <<current, lastBind>>
             ELSE LET ok == WglMakeCurrent(ret)
                  IN /\ current' = [current EXCEPT ![t] = PlatformMakeCurrent(@, 0, 0, ret)]
                     /\ lastBind' = IF ok THEN [lastBind EXCEPT ![t] = 0] ELSE lastBind
                     /\ lastOp' = ContextOp("unbind", t, 0,
                                            IF ok THEN "Ok" ELSE "MakeCurrentError")
    /\ UNCHANGED <<displays, contexts>>
    /\ UNCHANGED <<resolverVars, utilVars>>

\* A slip: the drop unbinds whatever is current on the thread.
UnbindAlways(cur, hglrc, ret) == PlatformMakeCurrent(cur, 0, 0, ret)

\* context.rs:24-26  the first half of WGLContextHandle::drop: the binding
\* of the dropping thread after the unbind attempt, whose result is ignored.
UnbindIfCurrent(cur, hglrc, ret) ==
    IF cur.hglrc = hglrc THEN PlatformMakeCurrent(cur, 0, 0, ret) ELSE cur

\* A slip: the handle is destroyed at the drop of every clone.
RunsDestructorAlways(ctx) == TRUE

\* context.rs:35  handle: Arc<WGLContextHandle>: dropping a WGLContext
\* runs WGLContextHandle::drop only when it gives up the last strong count.
RunsDestructor(ctx) == ctx.strong <= 1

\* A WGLContext value goes out of scope on thread t.  With other owners
\* left only the count changes; the last owner runs WGLContextHandle::drop
\* (context.rs:20-30) and then drops the `display` field.
DropContext(t, c) ==
    /\ contexts[c].state = "live"
    /\ IF ~RunsDestructor(contexts[c])
          THEN /\ contexts' = [contexts EXCEPT ![c].strong = @ - 1]
               /\ lastOp' = [ContextOp("drop_context", t, c, "Ok")
                                EXCEPT !.wasCurrent = IsCurrent(t, c)]
               /\ UNCHANGED <<displays, current>>
          ELSE \E ret \in {0, 1}, keep \in BOOLEAN :
                 LET h == contexts[c].hglrc
                     d == contexts[c].display
                     cur1 == UnbindIfCurrent(current[t], h, ret)
                     atCall == [current EXCEPT ![t] = cur1]
                 IN /\ current' = [current EXCEPT ![t] = PlatformDeleteContext(cur1, h, keep)]
                    /\ contexts' = [contexts EXCEPT ![c] =
                          [@ EXCEPT !.state = "deleted", !.strong = @ - 1, !.display = 0,
                                    !.deletes = @ + 1]]
                    /\ displays' = [displays EXCEPT ![d] = ArcDropDisplay(@)]
                    /\ lastOp' = [ContextOp("drop_context", t, c, "Ok")
                                     EXCEPT !.wasCurrent = IsCurrent(t, c),
                                            !.wasLast = TRUE,
                                            !.released = displays'[d].releases
                                                         - displays[d].releases,
                                            !.atDelete =
                                                {u \in Threads : atCall[u].hglrc = h},
                                            !.liveAtRelease =
                                                IF displays'[d].releases
                                                       > displays[d].releases
                                                    THEN ContextsOn(contexts', d)
                                                    ELSE {}]
    /\ UNCHANGED lastBind
    /\ UNCHANGED <<resolverVars, utilVars>>

\* Displays, contexts and the per-thread binding, one operation per step.
Next ==
    \/ \E hwnd \in Hwnds : FromWindow(hwnd)
    \/ \E hdc \in RawHdcs : FromRaw(hdc)
    \/ \E d \in DisplayIds : CloneDisplay(d) \/ DropDisplay(d)
    \/ \E t \in Threads, d \in DisplayIds : NewContext(t, d)
    \/ \E c \in ContextIds : CloneContext(c)
    \/ \E t \in Threads, c \in ContextIds : MakeCurrent(t, c) \/ DropContext(t, c)
    \/ \E t \in Threads : Unbind(t)

Spec == Init /\ [][Next]_vars

\* ffi.rs:81  (wgl_fns.wgl_get_proc_address)(name): the platform answers
\* for the context current on the calling thread; with no current context
\* it has no driver to ask and answers null.
WglGetProcAddressAnswers(cur) ==
    IF cur.hglrc = 0 THEN {NullPtr} ELSE ExtResults

\* Names the library itself exports as core GL functions.
CoreNames == {n \in GpaNames : ~n.nul /\ n.text \in CoreSymbols}

\* ffi.rs:67-96  get_proc_address of a core name by thread t, in whatever
\* binding state the thread is.
GetProcAddressOn(t, name) ==
    \E ext \in WglGetProcAddressAnswers(current[t]) : GetProcAddress(t, name, ext)

\* The operations on displays and contexts together with the loader.
NextLoad ==
    \/ Next
    \/ \E t \in Threads, name \in CoreNames : GetProcAddressOn(t, name)

SpecLoad == Init /\ [][NextLoad]_vars

\* ---------------------------------------------------- pixel swizzling ----
\* The wgl backend at rest, with a complete opengl32.dll: the state the
\* utilities below run in, none of which touches the backend.
BackendIdle ==
    /\ ResolverInit
    /\ dll.present /\ (RequiredSymbols \cup CoreSymbols) \subseteq dll.exports
    /\ ObjectInit

\* simd_utils.rs:33 / 59  bytes per SIMD chunk; simd_utils.rs:78 bytes per pixel.
AvxChunk == 32
NeonChunk == 16
PixelBytes == 4

\* simd_utils.rs:37-42  _mm256_setr_epi8 shuffle mask (byte i selects
\* source index mask[i], counted from 0).
AvxMask ==
    <<2, 1, 0, 3, 6, 5, 4, 7,
      10, 9, 8, 11, 14, 13, 12, 15,
      18, 17, 16, 19, 22, 21, 20, 23,
      26, 25, 24, 27, 30, 29, 28, 31>>

\* simd_utils.rs:62-65  mask_data of the NEON table lookup.
NeonMask ==
    <<2, 1, 0, 3, 6, 5, 4, 7,
      10, 9, 8, 11, 14, 13, 12, 15>>

\* simd_utils.rs:46  _mm256_shuffle_epi8: each byte is taken from the same
\* 128-bit lane of the chunk, at the low four bits of its mask byte; a mask
\* byte with the top bit set yields 0.
MmShuffleEpi8(chunk, mask) ==
    [i \in 1..AvxChunk |->
        IF mask[i] >= 128 THEN 0
        ELSE chunk[((i - 1) \div 16) * 16 + (mask[i] % 16) + 1]]

\* simd_utils.rs:71  vqtbl1q_u8: table lookup in the 16-byte chunk; an
\* index out of range yields 0.
Vqtbl1qU8(chunk, mask) ==
    [i \in 1..NeonChunk |-> IF mask[i] < NeonChunk THEN chunk[mask[i] + 1] ELSE 0]

\* The chunk of `width` bytes that holds byte i of data.
ChunkOf(data, i, width) ==
    SubSeq(data, ((i - 1) \div width) * width + 1, ((i - 1) \div width) * width + width)

\* simd_utils.rs:30-53  swizzle_simd on x86_64: the loop runs over the
\* first len & !31 bytes (33, 44-49); the bytes after them are not touched.
SwizzleAvx2(data) ==
    LET end == Len(data) - (Len(data) % AvxChunk)
    IN [i \in 1..Len(data) |->
          IF i <= end
             THEN MmShuffleEpi8(ChunkOf(data, i, AvxChunk), AvxMask)[((i - 1) % AvxChunk) + 1]
             ELSE data[i]]

\* simd_utils.rs:56-75  swizzle_simd on aarch64: the loop runs over the
\* first len & !15 bytes (59, 68-74).
SwizzleNeon(data) ==
    LET end == Len(data) - (Len(data) % NeonChunk)
    IN [i \in 1..Len(data) |->
          IF i <= end
             THEN Vqtbl1qU8(ChunkOf(data, i, NeonChunk), NeonMask)[((i - 1) % NeonChunk) + 1]
             ELSE data[i]]

\* simd_utils.rs:77-81  swizzle_scalar: chunks_exact_mut(4) visits every
\* complete 4-byte chunk and swaps its bytes 0 and 2.
swizzle_scalar(data) ==
    LET end == Len(data) - (Len(data) % PixelBytes)
    IN [i \in 1..Len(data) |->
          IF i > end THEN data[i]
          ELSE IF (i - 1) % PixelBytes = 0 THEN data[i + 2]
          ELSE IF (i - 1) % PixelBytes = 2 THEN data[i - 2]
          ELSE data[i]]

\* simd_utils.rs:17-26  swizzle_bgra_rgba: the cfg of the build selects
\* swizzle_simd on x86_64 and aarch64 and swizzle_scalar elsewhere.
swizzle_bgra_rgba(target, data) ==
    IF target = "x86_64" THEN SwizzleAvx2(data)
    ELSE IF target = "aarch64" THEN SwizzleNeon(data)
    ELSE swizzle_scalar(data)

\* simd_utils.rs:18-25  the architectures the cfg attributes tell apart.
Targets == {"x86_64", "aarch64", "other"}

\* Buffers of n pixels: the pattern of the tests (simd_utils.rs:91-97 and
\* 112) and one whose bytes are all different.
PixelBuffers(n) ==
    {[i \in 1..(PixelBytes * n) |-> ((i - 1) % PixelBytes) + 1],
     [i \in 1..(PixelBytes * n) |-> 10 * (((i - 1) % PixelBytes) + 1)],
     [i \in 1..(PixelBytes * n) |-> 100 + i]}

\* A buffer whose length is a multiple of 4 is about to be converted by a
\* build for one of the targets; on x86_64 the CPU may lack AVX2.
InitSwizzle ==
    /\ BackendIdle
    /\ \E n \in 0..MaxPixels, t \in Targets, f \in BOOLEAN :
          \E buf \in PixelBuffers(n) :
             /\ (t # "x86_64") => ~f
             /\ swz = [target |-> t, avx2 |-> f, status |-> "ready", orig |-> buf,
                       data |-> buf]
    /\ fds = [f \in Fds |-> NoFd]
    /\ fdOp = NoFdOp

\* simd_utils.rs:17-26  the call swizzle_bgra_rgba(&mut data).  On x86_64
\* swizzle_simd is compiled with #[target_feature(enable = "avx2")] (29)
\* and called without a feature test (21): on a CPU without AVX2 that is
\* undefined behaviour, an illegal-instruction fault or the AVX2 result.
Swizzle ==
    /\ swz.status = "ready"
    /\ IF swz.target = "x86_64" /\ ~swz.avx2
          THEN \E fault \in BOOLEAN :
                 swz' = IF fault
                           THEN [swz EXCEPT !.status = "sigill"]
                           ELSE [swz EXCEPT !.status = "done",
                                            !.data = swizzle_bgra_rgba(swz.target, swz.data)]
          ELSE swz' = [swz EXCEPT !.status = "done",
                                  !.data = swizzle_bgra_rgba(swz.target, swz.data)]
    /\ UNCHANGED <<resolverVars, objectVars, fds, fdOp>>

SpecSwizzle == InitSwizzle /\ [][Swizzle]_vars

\* ------------------------------------------------------------ DeviceFd ---
\* The result of an operation on descriptor f; before is the strong count
\* the Arc had when the operation started.
FdOp(name, f, result) ==
    [op |-> name, fd |-> f, result |-> result, before |-> fds[f].strong]

\* The descriptor is closed by the drop of the OwnedFd that holds it.
CloseFd(fd) == [fd EXCEPT !.state = "closed", !.closes = @ + 1]

\* Every descriptor is open and held by an OwnedFd, not yet wrapped.
InitFd ==
    /\ BackendIdle
    /\ swz = NoSwizzle
    /\ fds = [f \in Fds |-> [state |-> "open", strong |-> 0, owned |-> TRUE,
                             closes |-> 0]]
    /\ fdOp = NoFdOp

\* fd.rs:60-65  DeviceFd::from(fd: OwnedFd): DeviceFd(Arc::new(fd)).
FromOwnedFd(f) ==
    /\ fds[f].owned
    /\ fds' = [fds EXCEPT ![f] = [@ EXCEPT !.owned = FALSE, !.strong = 1]]
    /\ fdOp' = FdOp("from", f, "Ok")

\* fd.rs:18  #[derive(Clone)] on DeviceFd: one more Arc owner.
CloneDeviceFd(f) ==
    /\ fds[f].strong >= 1
    /\ fds[f].strong < MaxFdOwners
    /\ fds' = [fds EXCEPT ![f].strong = @ + 1]
    /\ fdOp' = FdOp("clone", f, "Ok")

\* fd.rs:19  drop of a DeviceFd value: the Arc gives up one strong count,
\* and the OwnedFd inside is dropped, closing the descriptor, with the last.
DropDeviceFd(f) ==
    /\ fds[f].strong >= 1
    /\ fds' = [fds EXCEPT ![f] =
                 IF @.strong = 1
                    THEN CloseFd([@ EXCEPT !.strong = 0])
                    ELSE [@ EXCEPT !.strong = @ - 1]]
    /\ fdOp' = FdOp("drop", f, "Ok")

\* A slip: the OwnedFd is taken out of the Arc whatever its count is.
ArcTryUnwrapUnchecked(strong) == TRUE

\* fd.rs:72  Arc::try_unwrap(self.0): Ok exactly for the only strong owner.
ArcTryUnwrap(strong) == strong = 1

\* fd.rs:67-74  try_into(self): Arc::try_unwrap(self.0).map_err(DeviceFd):
\* Ok moves the OwnedFd out of the Arc, Err gives the same Arc back.
TryIntoOwnedFd(f) ==
    /\ fds[f].strong >= 1
    /\ IF ArcTryUnwrap(fds[f].strong)
          THEN /\ fds' = [fds EXCEPT ![f] = [@ EXCEPT !.strong = @ - 1, !.owned = TRUE]]
               /\ fdOp' = FdOp("try_into", f, "Ok")
          ELSE /\ fds' = fds
               /\ fdOp' = FdOp("try_into", f, "Err")

\* The drop of an OwnedFd held outside any DeviceFd closes the descriptor.
DropOwnedFd(f) ==
    /\ fds[f].owned
    /\ fds' = [fds EXCEPT ![f] = CloseFd([@ EXCEPT !.owned = FALSE])]
    /\ fdOp' = FdOp("drop_owned", f, "Ok")

NextFd ==
    /\ \E f \in Fds :
          \/ FromOwnedFd(f)
          \/ CloneDeviceFd(f)
          \/ DropDeviceFd(f)
          \/ TryIntoOwnedFd(f)
          \/ DropOwnedFd(f)
    /\ UNCHANGED <<resolverVars, objectVars, swz>>

SpecFd == InitFd /\ [][NextFd]_vars

\* ================================================================ claims ==
LiveContexts == {c \in ContextIds : contexts[c].state = "live"}
LastDropWasLastOwner == lastOp.op = "drop_context" /\ lastOp.wasLast

\* C1 (as stated): at the moment wglDeleteContext is called for a handle, the
\* handle is not the current context of the calling thread.
C1_DeleteNotCurrentOnCaller ==
    LastDropWasLastOwner => lastOp.thread \notin lastOp.atDelete

\* C2 (as stated): wglDeleteContext is never called for a handle that is at
\* that moment current on any thread; here for the drops whose thread does
\* not have the context current itself.
C2_DeleteNotCurrentAnywhere ==
    (LastDropWasLastOwner /\ ~lastOp.wasCurrent) => lastOp.atDelete = {}

\* C3 (as stated): when the last owner is dropped on a thread that has the
\* context current, the thread's current-context query returns 0 afterwards.
C3_DropLeavesNoCurrent ==
    (LastDropWasLastOwner /\ lastOp.wasCurrent) => current[lastOp.thread].hglrc = 0

\* C4: on every thread, is_current() of a live context is true exactly when
\* the thread's most recent Ok result among make_current / unbind was this
\* context's make_current; calls that returned Err leave the answer alone.
C4_IsCurrentTracksLastSuccess ==
    \A t \in Threads, c \in LiveContexts : IsCurrent(t, c) <=> (lastBind[t] = c)

\* C4 witness: a call has just failed on a thread whose earlier make_current
\* succeeded, and the context still reports current.
C4_Witness ==
    /\ lastOp.op \in {"make_current", "unbind"}
    /\ lastOp.result = "MakeCurrentError"
    /\ \E c \in LiveContexts : lastBind[lastOp.thread] = c /\ IsCurrent(lastOp.thread, c)

\* C5: on one thread at most one live context reports is_current(), and
\* right after a make_current that returned Ok the context is current on
\* that thread and no other live context is.
C5_AtMostOneCurrent ==
    /\ \A t \in Threads, a \in LiveContexts, b \in LiveContexts :
          (IsCurrent(t, a) /\ IsCurrent(t, b)) => a = b
    /\ (lastOp.op = "make_current" /\ lastOp.result = "Ok") =>
          /\ IsCurrent(lastOp.thread, lastOp.id)
          /\ \A b \in LiveContexts \ {lastOp.id} : ~IsCurrent(lastOp.thread, b)

\* C5 witness: two live contexts on the same display; the second has just
\* been made current on a thread, the first one is current on another
\* thread and reports not current on this one.
C5_Witness ==
    /\ lastOp.op = "make_current" /\ lastOp.result = "Ok" /\ lastOp.id = 2
    /\ contexts[1].state = "live"
    /\ contexts[1].display = contexts[2].display
    /\ ~IsCurrent(lastOp.thread, 1)
    /\ \E u \in Threads \ {lastOp.thread} : IsCurrent(u, 1)

\* C6 (as stated): the library is opened exactly once, the table resolved at
\* most once, and all callers of init_gl_library get the same outcome.
C6_OneInitSameOutcome ==
    /\ opens <= 1
    /\ resolves <= 1
    /\ initOutcomes # {} => opens = 1
    /\ \A o1 \in initOutcomes, o2 \in initOutcomes : o1 = o2

\* C7: the entry-point table is never set without the library handle and
\* never holds fewer than the six entry points; once a call of
\* init_gl_library has returned Ok both cells are set, and every use of a
\* wrapper that found the table found all six entry points.
C7_TableCompleteOnceOk ==
    /\ WGL_FUNCTIONS.init => (GL_LIBRARY.init /\ WGL_FUNCTIONS.val = RequiredSymbols)
    /\ "Ok" \in initOutcomes =>
          /\ IsInitialized(GL_LIBRARY, WGL_FUNCTIONS)
          /\ initOutcomes = {"Ok"}
          /\ \A t \in Threads : gpaRet[t].kind # "panic"
    /\ \A t \in Threads : wrapRet[t].kind = "called" => wrapRet[t].fns = RequiredSymbols

\* C7 witness: a call has returned Ok, one thread has used a wrapper and
\* found the table while another thread is inside init_gl_library.
C7_Witness ==
    /\ "Ok" \in initOutcomes
    /\ \E t \in Threads, u \in Threads :
          t # u /\ wrapRet[t].kind = "called" /\ pc[u] \in {"check", "ret"}

DllIsBad == ~dll.present \/ ~(RequiredSymbols \subseteq dll.exports)

\* C8 (as stated): with a library that cannot be opened or lacks a required
\* entry point, every call of init_gl_library returns
\* Err(Error::LibraryLoadFailed).
C8_LoadFailureIsReturned ==
    DllIsBad => initOutcomes \subseteq {"Err_LibraryLoadFailed"}

\* C9 (as stated): get_proc_address never panics, and returns null when
\* initialization failed.
C9_GetProcAddressNeverAborts ==
    \A t \in Threads :
        /\ gpaRet[t].kind # "panic"
        /\ (DllIsBad /\ gpaRet[t].kind = "ptr") => gpaRet[t].ptr = NullPtr

\* Owners of the Arc<WGLDisplayHandle> d: the values the user holds and the
\* live contexts built on it.
DisplayOwners(d) ==
    displays[d].held + Cardinality({c \in LiveContexts : contexts[c].display = d})

\* C10: a display built by from_window is owned and its DC is released
\* exactly once, by the step that drops its last owner (a user-held clone
\* or a context) and not while an owner is left; a display built by
\* from_raw is not owned and no ReleaseDC is ever issued for it.
C10_ReleaseExactlyOnceIffOwned ==
    /\ \A d \in DisplayIds :
          /\ displays[d].state = "live" =>
                (displays[d].releases = 0 /\ DisplayOwners(d) > 0
                 /\ displays[d].strong = DisplayOwners(d))
          /\ displays[d].state = "dropped" =>
                (displays[d].releases = (IF displays[d].owned THEN 1 ELSE 0)
                 /\ DisplayOwners(d) = 0)
    /\ (lastOp.op = "from_window" /\ lastOp.result = "Ok") =>
          (displays[lastOp.id].owned /\ displays[lastOp.id].hwnd # {})
    /\ (lastOp.op = "from_raw" /\ lastOp.result = "Ok") => ~displays[lastOp.id].owned
    /\ (lastOp.op \in {"drop_display", "drop_context"} /\ lastOp.released > 0) =>
          \E d \in DisplayIds :
              displays[d].state = "dropped" /\ displays[d].owned /\ lastOp.released = 1

\* C10 witness: an owned display with a user-held clone and a context on it
\* has lost its last owner, the context, and was released by that drop.
C10_Witness ==
    /\ lastOp.op = "drop_context" /\ lastOp.released = 1
    /\ \E d \in DisplayIds :
          displays[d].state = "dropped" /\ displays[d].owned /\ displays[d].releases = 1

\* C11: a surface outlives the contexts built on it: the display of every
\* live context is live and not released, and when ReleaseDC is called no
\* context on that surface is left undeleted (the context's own delete
\* comes before the drop of its display field).
C11_SurfaceOutlivesContexts ==
    /\ \A c \in LiveContexts :
          /\ displays[contexts[c].display].state = "live"
          /\ displays[contexts[c].display].releases = 0
    /\ lastOp.released > 0 => lastOp.liveAtRelease = {}

\* C11 witness: the user dropped every display value first; the display was
\* released only by the drop of the last context on it, after another
\* context on it had been deleted.
C11_Witness ==
    /\ lastOp.op = "drop_context" /\ lastOp.released = 1
    /\ \A c \in ContextIds : contexts[c].state = "deleted"
    /\ \E d \in DisplayIds : displays[d].state = "dropped" /\ displays[d].owned

\* C12: the native handle of a created context is deleted exactly once, at
\* the drop of its last clone: a context with an owner left has seen no
\* delete call, a deleted one has seen one and has no owner, a drop deletes
\* exactly when it was the last owner's, and the handle an operation acts
\* on is never one that was deleted before that operation.
C12_DeleteOnceAtLastDrop ==
    /\ \A c \in ContextIds :
          /\ contexts[c].state = "live" =>
                contexts[c].deletes = 0 /\ contexts[c].strong >= 1
          /\ contexts[c].state = "deleted" =>
                contexts[c].deletes = 1 /\ contexts[c].strong = 0
          /\ contexts[c].state = "free" => contexts[c].deletes = 0
    /\ lastOp.op = "drop_context" =>
          (lastOp.wasLast <=> contexts[lastOp.id].state = "deleted")
    /\ (lastOp.op \in {"make_current", "clone_context"}) =>
          contexts[lastOp.id].state = "live"

\* C12 witness: a context was deleted by the drop of its last owner, with
\* one delete call, while the other context is still shared by two owners.
C12_Witness ==
    /\ lastOp.op = "drop_context" /\ lastOp.wasLast
    /\ contexts[lastOp.id].deletes = 1
    /\ \E c \in ContextIds : contexts[c].state = "live" /\ contexts[c].strong = 2

\* C13: with the library initialised, get_proc_address of a name without
\* an interior NUL returns the answer of wglGetProcAddress when that answer
\* is none of 0, 1, 2, 3, -1; otherwise the address of the symbol in
\* opengl32.dll, or null when the library does not export it.  A name with
\* an interior NUL yields null and wglGetProcAddress is not asked.
C13_ExtensionThenLibrary ==
    (lastOp.op = "get_proc_address" /\ IsInitialized(GL_LIBRARY, WGL_FUNCTIONS)) =>
        IF lastOp.name.nul
            THEN lastOp.result = NullPtr /\ lastOp.answers = <<>>
            ELSE /\ Len(lastOp.answers) = 1
                 /\ lastOp.answers[1] \notin {0, 1, 2, 3, -1} =>
                        lastOp.result = lastOp.answers[1]
                 /\ lastOp.answers[1] \in {0, 1, 2, 3, -1} =>
                        IF lastOp.name.text \in dll.exports
                            THEN /\ lastOp.result = SymbolAddress(lastOp.name.text)
                                 /\ lastOp.result # NullPtr
                            ELSE lastOp.result = NullPtr

\* C13 witness: wglGetProcAddress answered with the sentinel 3 for a core
\* function, and the address came from the library's own export.
C13_Witness ==
    /\ lastOp.op = "get_proc_address"
    /\ lastOp.answers = <<3>>
    /\ lastOp.name.text \in CoreSymbols
    /\ lastOp.result = SymbolAddress(lastOp.name.text)

\* C14: WGLContext::unbind() can be called on any thread in any state,
\* also before any display or context exists and before the library was
\* initialised; it always returns Ok(()) or Err(MakeCurrentError) as a
\* value, and after Ok the calling thread has no current context.
C14_UnbindAlwaysReturns ==
    lastOp.op = "unbind" =>
        /\ lastOp.result \in {"Ok", "MakeCurrentError"}
        /\ lastOp.result = "Ok" => current[lastOp.thread] = NoBinding

\* C15: from_window returns GetDCFailed exactly when GetDC answered null,
\* ChoosePixelFormatFailed exactly when GetDC succeeded and ChoosePixelFormat
\* answered 0, SetPixelFormatFailed exactly when both succeeded and
\* SetPixelFormat answered 0, and Ok exactly when all three succeeded; the
\* Ok display is owned, holds the window handle given and the DC acquired.
C15_FailuresDistinctInOrder ==
    lastOp.op = "from_window" =>
        LET a == lastOp.answers
            n == Len(lastOp.answers)
        IN /\ lastOp.result = "GetDCFailed" <=> (n = 1 /\ a[1] = 0)
           /\ lastOp.result = "ChoosePixelFormatFailed" <=>
                 (n = 2 /\ a[1] # 0 /\ a[2] = 0)
           /\ lastOp.result = "SetPixelFormatFailed" <=>
                 (n = 3 /\ a[1] # 0 /\ a[2] # 0 /\ a[3] = 0)
           /\ lastOp.result = "Ok" <=>
                 (n = 3 /\ a[1] # 0 /\ a[2] # 0 /\ a[3] # 0)
           /\ n > 0 => lastOp.result \in {"GetDCFailed", "ChoosePixelFormatFailed",
                                          "SetPixelFormatFailed", "Ok"}
           /\ lastOp.result = "Ok" =>
                 /\ displays[lastOp.id].state = "live"
                 /\ displays[lastOp.id].owned
                 /\ displays[lastOp.id].hwnd = {lastOp.arg}
                 /\ displays[lastOp.id].hdc = a[1]

\* C15 witness: GetDC and ChoosePixelFormat succeeded and SetPixelFormat
\* rejected the format: the third failure, after the first two tests passed.
C15_Witness ==
    /\ lastOp.op = "from_window"
    /\ lastOp.result = "SetPixelFormatFailed"
    /\ Len(lastOp.answers) = 3 /\ lastOp.answers[3] = 0

\* C16 as stated: from_raw(h) fails only when h is 0; for every non-null h
\* it returns Ok with owned false and no window handle, and it makes no
\* native surface or pixel-format call.
C16_FromRawFailsOnlyOnNull ==
    lastOp.op = "from_raw" =>
        /\ lastOp.arg # 0 =>
              /\ lastOp.result = "Ok"
              /\ ~displays[lastOp.id].owned
              /\ displays[lastOp.id].hwnd = {}
        /\ lastOp.result # "Ok" => lastOp.arg = 0
        /\ lastOp.acquired = 0 /\ lastOp.released = 0 /\ lastOp.answers = <<>>

\* C16 amended: from_raw(h) returns Ok exactly when h is not 0 and the
\* library is initialised by its init_gl_library call, and GetDCFailed
\* exactly when the library is initialised and h is 0.  The Ok display is
\* not owned, has no window handle and the handle h.  When the library
\* does not initialise, no display is produced whatever h is.  No native
\* surface or pixel-format call is made in any case.
C16_FromRawNeedsLibraryAndHandle ==
    lastOp.op = "from_raw" =>
        LET ready == IsInitialized(GL_LIBRARY, WGL_FUNCTIONS)
        IN /\ lastOp.result = "Ok" <=> (ready /\ lastOp.arg # 0)
           /\ lastOp.result = "GetDCFailed" <=> (ready /\ lastOp.arg = 0)
           /\ lastOp.result = "Ok" =>
                 /\ displays[lastOp.id].state = "live"
                 /\ ~displays[lastOp.id].owned
                 /\ displays[lastOp.id].hwnd = {}
                 /\ displays[lastOp.id].hdc = lastOp.arg
           /\ lastOp.result # "Ok" => lastOp.id = 0
           /\ lastOp.acquired = 0 /\ lastOp.released = 0 /\ lastOp.answers = <<>>

\* C16 witness: from_raw of a non-null handle produced a display that is
\* not owned and has no window.
C16_Witness ==
    /\ lastOp.op = "from_raw" /\ lastOp.arg # 0 /\ lastOp.result = "Ok"
    /\ ~displays[lastOp.id].owned /\ displays[lastOp.id].hwnd = {}

\* C17: from_window never returns Ok with a downgraded pixel format:
\* whenever it returns Ok, the format ChoosePixelFormat selected and
\* SetPixelFormat applied satisfies every requested attribute (32-bit
\* colour, 24-bit depth, 8-bit stencil, double buffer, draw to window,
\* OpenGL support).
C17_NoDowngradedFormat ==
    (lastOp.op = "from_window" /\ lastOp.result = "Ok") =>
        Satisfies(DeviceFormat(lastOp.answers[2]), RequestedFormat)

\* C18: WGLContext::new returns ContextCreationFailed exactly when
\* wglCreateContext answered 0; then no context object exists for it, no
\* context carries the handle 0 (so none is deleted or made current), and
\* the surface has the owners it had; otherwise the new context holds the
\* handle returned and a strong reference to the surface.
C18_NewFailsExactlyOnNullHandle ==
    /\ \A c \in ContextIds : contexts[c].state # "free" => contexts[c].hglrc # 0
    /\ \A d \in DisplayIds :
          displays[d].state = "live" => displays[d].strong = DisplayOwners(d)
    /\ (lastOp.op = "new_context" /\ lastOp.result # "panic_uninit") =>
          /\ Len(lastOp.answers) = 1
          /\ lastOp.result = "ContextCreationFailed" <=> lastOp.answers[1] = 0
          /\ lastOp.result = "Ok" <=> lastOp.answers[1] # 0
          /\ lastOp.result = "ContextCreationFailed" => lastOp.id = 0
          /\ lastOp.result = "Ok" =>
                /\ contexts[lastOp.id].state = "live"
                /\ contexts[lastOp.id].hglrc = lastOp.answers[1]
                /\ contexts[lastOp.id].display = lastOp.arg
                /\ contexts[lastOp.id].strong = 1
                /\ lastOp.id \in ContextsOn(contexts, lastOp.arg)

\* C18 witness: wglCreateContext answered 0 on a surface that already
\* carries a context; the failed call left that one context as its only
\* context owner.
C18_Witness ==
    /\ lastOp.op = "new_context" /\ lastOp.result = "ContextCreationFailed"
    /\ lastOp.answers = <<0>>
    /\ Cardinality(ContextsOn(contexts, lastOp.arg)) = 1
    /\ \A c \in ContextIds : contexts[c].state \in {"free", "live"}

\* C19: init_gl_library is idempotent: once a call has returned Ok, the
\* library has been opened once and the symbols resolved once however many
\* calls followed from whichever thread, every call returned Ok, and the
\* library handle and the function table are the ones of the first success.
C19_InitIdempotent ==
    "Ok" \in initOutcomes =>
        /\ opens = 1 /\ resolves = 1
        /\ initOutcomes = {"Ok"}
        /\ GL_LIBRARY = [init |-> TRUE, val |-> dll.exports]
        /\ WGL_FUNCTIONS = [init |-> TRUE, val |-> RequiredSymbols]
        /\ ~INIT_LOCK.poisoned

\* C19 witness: every thread has completed a get_proc_address call, each
\* with its own init_gl_library call, and the library was opened once.
C19_Witness ==
    /\ opens = 1 /\ resolves = 1
    /\ \A t \in Threads : gpaRet[t].kind = "ptr" /\ pc[t] = "idle"

\* C20: under fair scheduling every call of init_gl_library, alone or at
\* the start of get_proc_address, eventually returns (reaches its
\* `return Ok(())`); INIT_LOCK is held only by a thread inside
\* init_gl_library and is never acquired by the thread that holds it.
C20_EveryCallReturns ==
    /\ \A t \in Threads : (pc[t] = "lock") ~> (pc[t] = "ret")
    /\ [](\A t \in Threads :
            INIT_LOCK.holder = t => pc[t] \in {"check", "open", "resolve", "ret"})

\* What holds of the calls in place of C20: every call ends, by a return or
\* by a panic, and the lock is held only inside init_gl_library, so no
\* caller waits for ever.
EveryCallEnds ==
    /\ \A t \in Threads : (pc[t] # "idle") ~> (pc[t] = "idle")
    /\ [](\A t \in Threads :
            INIT_LOCK.holder = t => pc[t] \in {"check", "open", "resolve", "ret"})

\* C21: any two calls of get_proc_address with the same core name return
\* the same non-null address, whatever was done to contexts between them
\* (the calls recorded per thread are all of the one core name).
C21_CoreAddressStable ==
    \A t, u \in Threads :
        (gpaRet[t].kind = "ptr" /\ gpaRet[u].kind = "ptr"
            /\ (\A n \in CoreNames : n.text \in dll.exports)) =>
            /\ gpaRet[t].ptr # NullPtr
            /\ gpaRet[t].ptr = gpaRet[u].ptr

\* C22: for every buffer whose length is a multiple of 4, also one
\* shorter than a SIMD chunk, swizzle_bgra_rgba exchanges bytes 0 and 2 of
\* every pixel and keeps bytes 1 and 3: its result is that of
\* swizzle_scalar, on every target.
C22_SwizzleEqualsScalar ==
    swz.status = "done" =>
        /\ swz.data = swizzle_scalar(swz.orig)
        /\ \A p \in 0..((Len(swz.orig) \div PixelBytes) - 1) :
              /\ swz.data[PixelBytes * p + 1] = swz.orig[PixelBytes * p + 3]
              /\ swz.data[PixelBytes * p + 3] = swz.orig[PixelBytes * p + 1]
              /\ swz.data[PixelBytes * p + 2] = swz.orig[PixelBytes * p + 2]
              /\ swz.data[PixelBytes * p + 4] = swz.orig[PixelBytes * p + 4]

\* C23: the drop of a WGLContext value changes the calling thread's current
\* context and surface only when it is the drop of the last owner and the
\* context is current on that thread; with another clone alive, or with
\* another context or none current on the thread, the thread's binding
\* after the drop is the one before it.
C23_DropKeepsOtherBindings ==
    [][(lastOp'.op = "drop_context"
          /\ ~(lastOp'.wasLast /\ lastOp'.wasCurrent))
        => current'[lastOp'.thread] = current[lastOp'.thread]]_vars

\* C23 witness: the last owner of a context was dropped on a thread on
\* which another context is current, and that context is still current.
C23_Witness ==
    /\ lastOp.op = "drop_context" /\ lastOp.wasLast /\ ~lastOp.wasCurrent
    /\ \E c \in LiveContexts : IsCurrent(lastOp.thread, c)

\* The owned displays whose DC has not been released.
LiveOwnedDisplays ==
    {d \in DisplayIds : displays[d].state = "live" /\ displays[d].owned}

\* C24: from_window neither leaks nor double-releases the DC on failure:
\* a failed GetDC is followed by no release; a failure after a successful
\* GetDC releases the DC once and leaves no display object.  Every step
\* changes the number of live owned displays by the DCs it acquired minus
\* the DCs it released, so acquisitions always equal releases plus live
\* owned displays.
C24_FailedFromWindowReleasesOnce ==
    /\ [](lastOp.op = "from_window" =>
            /\ lastOp.result = "GetDCFailed" =>
                  lastOp.acquired = 0 /\ lastOp.released = 0 /\ lastOp.id = 0
            /\ lastOp.result \in {"ChoosePixelFormatFailed", "SetPixelFormatFailed"} =>
                  lastOp.acquired = 1 /\ lastOp.released = 1 /\ lastOp.id = 0
            /\ lastOp.result = "Ok" =>
                  lastOp.acquired = 1 /\ lastOp.released = 0
                     /\ lastOp.id \in LiveOwnedDisplays
            /\ lastOp.answers = <<>> => lastOp.acquired = 0 /\ lastOp.released = 0)
    /\ [][Cardinality(LiveOwnedDisplays') - Cardinality(LiveOwnedDisplays)
            = lastOp'.acquired - lastOp'.released]_vars

\* C24 witness: GetDC succeeded, SetPixelFormat rejected the format, the
\* DC was released once and no display exists.
C24_Witness ==
    /\ lastOp.op = "from_window" /\ lastOp.result = "SetPixelFormatFailed"
    /\ lastOp.acquired = 1 /\ lastOp.released = 1
    /\ \A d \in DisplayIds : displays[d].state = "free"

\* C25: whenever a display or a context exists, init_gl_library has
\* succeeded: the library handle and the entry-point table are both set,
\* so no operation on a context (new, clone, make_current, drop) ends in
\* the "WGL not initialized" panic of the wgl_* wrappers.
C25_ObjectsImplyInitialized ==
    /\ ((\E d \in DisplayIds : displays[d].state = "live")
          \/ (\E c \in ContextIds : contexts[c].state = "live")) =>
          /\ IsInitialized(GL_LIBRARY, WGL_FUNCTIONS)
          /\ WglFunctionsGet(WGL_FUNCTIONS).kind = "called"
          /\ "Ok" \in initOutcomes
    /\ lastOp.op \in {"new_context", "clone_context", "make_current", "drop_context"} =>
          lastOp.result # "panic_uninit"

\* C25 witness: a context built on a from_raw display was made current
\* through the wrappers, with the table initialised by from_raw.
C25_Witness ==
    /\ lastOp.op = "make_current" /\ lastOp.result = "Ok"
    /\ ~displays[contexts[lastOp.id].display].owned
    /\ opens = 1 /\ resolves = 1

\* C26: over any sequence of clone, drop and try_into on a DeviceFd,
\* try_into succeeds exactly when the value is the only owner left, and
\* otherwise gives back a DeviceFd of the same descriptor with the owner
\* count unchanged; the descriptor is closed at most once, and not while a
\* clone or a returned OwnedFd holds it.
C26_TryIntoOnlyForSoleOwner ==
    /\ \A f \in Fds :
          /\ fds[f].closes <= 1
          /\ fds[f].closes = 1 <=> fds[f].state = "closed"
          /\ fds[f].state = "closed" => (fds[f].strong = 0 /\ ~fds[f].owned)
          /\ fds[f].state = "open" => (fds[f].strong > 0 \/ fds[f].owned)
          /\ ~(fds[f].owned /\ fds[f].strong > 0)
    /\ fdOp.op = "try_into" =>
          /\ fdOp.result = "Ok" <=> fdOp.before = 1
          /\ fdOp.result = "Ok" =>
                /\ fds[fdOp.fd].owned /\ fds[fdOp.fd].strong = 0
                /\ fds[fdOp.fd].state = "open"
          /\ fdOp.result = "Err" =>
                /\ fds[fdOp.fd].strong = fdOp.before /\ ~fds[fdOp.fd].owned
                /\ fds[fdOp.fd].state = "open"

\* C26 witness: try_into was refused for a descriptor with two owners, and
\* the other descriptor, taken out of its DeviceFd by an earlier try_into
\* or never wrapped, has been closed once by the drop of its OwnedFd.
C26_Witness ==
    /\ fdOp.op = "try_into" /\ fdOp.result = "Err" /\ fdOp.before = 2
    /\ \E f \in Fds : f # fdOp.fd /\ fds[f].closes = 1

====
